---- MODULE Spec2Model ----
(***************************************************************************)
(* A model of CRLLoss (src/mmpretrain/models/losses/crl_loss.py), of       *)
(* CoSenLinearClsHead (src/mmpretrain/models/heads/cosen_linear_head.py),  *)
(* of DOSHead (src/mmpretrain/models/heads/dos_head.py) and of RandomCrop  *)
(* (src/mmcls/datasets/pipelines/processing.py).                           *)
(*                                                                         *)
(* crl_loss.py as written does not compile (line 159 lacks a closing       *)
(* parenthesis) and names variables that are never bound: labels (150),    *)
(* hard_ned_ind (155, 158), lab (161, 163), torch (101, 133).  The model   *)
(* follows the statements of forward in order and reads each unbound name  *)
(* as the one binding in scope it can stand for: labels -> label,          *)
(* hard_ned_ind -> hard_neg_ind, max_pred[lab] -> max_pred[idx], torch ->  *)
(* the tensor library.  Nothing else is repaired: the number of            *)
(* collections (len(ind)), the index used to choose a collection           *)
(* (max_pred_lab[idx]), the strict comparison before an eviction and the   *)
(* empty hard-positive store are those of the source.                      *)
(*                                                                         *)
(* Tensors are sequences; a tensor position p (0-based, as in the source)  *)
(* is element p + 1 of its sequence.                                       *)
(***************************************************************************)
EXTENDS Integers, Sequences, FiniteSets, TLC

\* ------------------------------------------------------------------ bounds
\* Largest batch handed to forward, and largest k the loss is built with.
MaxBatch == 3
MaxK == 2

\* Largest batch handed to CoSenLinearClsHead._get_loss.
MaxHeadBatch == 2

\* Largest height, width and crop side of RandomCrop, and largest padding.
MaxDim == 4
MaxPad == 1

\* The class labels, and the values a prediction score takes.
Classes == {0, 1, 2}
Scores == {1, 2, 3}

\* The rows of cls_score drawn: one score per class, for classes 0, 1, 2 in
\* order.  Class 0 is predicted with each score (once on a tie with class 1),
\* classes 1 and 2 once each.
ScoreRows == {<<1, 1, 1>>, <<2, 1, 1>>, <<2, 2, 1>>, <<3, 1, 2>>,
              <<1, 2, 1>>, <<1, 1, 3>>}

\* The min_classes arguments the loss is constructed with.
MinClassesArgs == {{1, 2}, {0, 1}}

\* An example of a batch: <<ground-truth label, row of scores>>.
Examples == Classes \X ScoreRows

Batches == UNION {[1..n -> Examples] : n \in 0..MaxBatch}

\* ------------------------------------------------------------------ tensors
RECURSIVE SortedSeq(_)
\* The elements of a finite set of integers in ascending order.
SortedSeq(S) ==
    IF S = {} THEN <<>>
    ELSE LET m == CHOOSE x \in S : \A y \in S : x <= y
         IN <<m>> \o SortedSeq(S \ {m})

\* (mutant: every example counts as a minority example)
MinLabelsMaskAll(lab, mc) == [p \in 1..Len(lab) |-> TRUE]
\* torch.isin(label, self.min_classes)
MinLabelsMask(lab, mc) == [p \in 1..Len(lab) |-> lab[p] \in mc]

\* torch.where(mask)[0]: the positions (0-based) where mask holds, ascending.
Where(mask) == SortedSeq({p - 1 : p \in {q \in 1..Len(mask) : mask[q]}})

\* torch.where on a 1-D mask returns a tuple of one tensor, so len(ind) is 1.
len_ind == 1

\* row.max(): the largest score of a row.
RowMax(row) == CHOOSE v \in Scores :
    /\ \E c \in 1..Len(row) : row[c] = v
    /\ \A c \in 1..Len(row) : row[c] <= v

\* The label of the first maximal score of a row (the index torch.max returns).
RowArgMax(row) ==
    (CHOOSE c \in 1..Len(row) :
        /\ row[c] = RowMax(row)
        /\ \A d \in 1..(c - 1) : row[d] # RowMax(row)) - 1

\* cls_score[min_labels_mask].max(dim=1), first component.
MaxPred(scores, ind0) == [j \in 1..Len(ind0) |-> RowMax(scores[ind0[j] + 1])]

\* cls_score[min_labels_mask].max(dim=1), second component.
MaxPredLab(scores, ind0) == [j \in 1..Len(ind0) |-> RowArgMax(scores[ind0[j] + 1])]

\* (mutant: every minority example counts as wrongly predicted)
MaxThrsMaskAll(mpl, lab, ind0) == [j \in 1..Len(ind0) |-> TRUE]
\* torch.ne(max_pred_lab, label[ind])
MaxThrsMask(mpl, lab, ind0) == [j \in 1..Len(ind0) |-> mpl[j] # lab[ind0[j] + 1]]

\* torch.nonzero(max_thrs_mask): positions in the filtered batch, ascending.
HardNegInd(mask) == Where(mask)

\* ------------------------------------------------------------------ heapq
\* A heap entry is the list [max_pred[idx], idx]; lists compare item by item.
EntryLt(a, b) == a[1] < b[1] \/ (a[1] = b[1] /\ a[2] < b[2])

RECURSIVE SiftDown(_, _, _, _)
\* heapq._siftdown with newitem held aside: pos and startpos are 0-based.
SiftDown(heap, startpos, pos, newitem) ==
    IF pos > startpos /\ EntryLt(newitem, heap[((pos - 1) \div 2) + 1])
    THEN SiftDown([heap EXCEPT ![pos + 1] = heap[((pos - 1) \div 2) + 1]],
                  startpos, (pos - 1) \div 2, newitem)
    ELSE [heap EXCEPT ![pos + 1] = newitem]

RECURSIVE SiftUp(_, _, _, _)
\* heapq._siftup with newitem held aside: bubble the smaller child up to a
\* leaf, then sift newitem down from there.
SiftUp(heap, startpos, pos, newitem) ==
    LET endpos == Len(heap)
        left == 2 * pos + 1
        right == left + 1
        childpos == IF right < endpos /\ ~EntryLt(heap[left + 1], heap[right + 1])
                    THEN right ELSE left
    IN IF left < endpos
       THEN SiftUp([heap EXCEPT ![pos + 1] = heap[childpos + 1]],
                   startpos, childpos, newitem)
       ELSE SiftDown(heap, startpos, pos, newitem)

\* heapq.heappush(heap, item)
HeapPush(heap, item) == SiftDown(Append(heap, item), 0, Len(heap), item)

\* (mutant: list.pop in place of heapq.heappop, dropping the last slot)
HeapPopLast(heap) == SubSeq(heap, 1, Len(heap) - 1)

\* heapq.heappop(heap), the heap it leaves (the caller drops the item).
HeapPop(heap) ==
    LET lastelt == heap[Len(heap)]
        rest == SubSeq(heap, 1, Len(heap) - 1)
    IN IF rest = <<>> THEN rest ELSE SiftUp(rest, 0, 0, lastelt)

\* ------------------------------------------------------------------ state
VARIABLES
    k,              \* CRLLoss: self.k
    min_classes,    \* CRLLoss: self.min_classes
    pc,             \* where forward stands: idle, mine, done, raised
    label,          \* forward's argument label
    cls_score,      \* forward's argument cls_score
    ind,            \* torch.where(min_labels_mask)[0]
    max_pred,       \* largest score of each minority example
    max_pred_lab,   \* its label
    hard_neg_ind,   \* positions of the wrongly predicted minority examples
    i,              \* how many of hard_neg_ind the loop has handled
    hard_samples,   \* <<hard negatives, hard positives>>, a list of heaps each
    error,          \* the exception forward raised, or "none"
    loss_cls,       \* the value forward is about to return, or NoLoss
    head,           \* the CoSenLinearClsHead construction, or NoHead
    result,         \* what the last _get_loss call did, or NoResult
    dos,            \* the DOSHead construction, or NoDos
    ctor,           \* a CRLLoss construction with its flags given, or NoCtor
    rc              \* the RandomCrop and its last transform, or NoRc

vars == <<k, min_classes, pc, label, cls_score, ind, max_pred, max_pred_lab,
          hard_neg_ind, i, hard_samples, error, loss_cls, head, result, dos, ctor, rc>>

config == <<k, min_classes>>
locals == <<label, cls_score, ind, max_pred, max_pred_lab, hard_neg_ind, i,
            hard_samples>>
crl == <<config, pc, locals, error, loss_cls>>

NoLoss == [kind |-> "none"]
NoHead == [status |-> "none"]
NoResult == [kind |-> "none"]
NoDos == [status |-> "none"]
NoCtor == [status |-> "none"]
NoRc == [status |-> "none"]

\* The objects beside the CRLLoss and the CoSenLinearClsHead.
others == <<dos, ctor, rc>>

\* No call is under way and no other object is held: the next operation
\* starts from here.
Quiet == pc = "idle" /\ head = NoHead /\ dos = NoDos /\ ctor = NoCtor
         /\ rc = NoRc

\* CRLLoss.__init__ with use_sigmoid and use_soft left at their defaults: k
\* and min_classes are kept as given.  No other object is built yet.
Init ==
    /\ k \in 1..MaxK
    /\ min_classes \in MinClassesArgs
    /\ pc = "idle"
    /\ label = <<>>
    /\ cls_score = <<>>
    /\ ind = <<>>
    /\ max_pred = <<>>
    /\ max_pred_lab = <<>>
    /\ hard_neg_ind = <<>>
    /\ i = 0
    /\ hard_samples = <<>>
    /\ error = "none"
    /\ loss_cls = NoLoss
    /\ head = NoHead
    /\ result = NoResult
    /\ dos = NoDos
    /\ ctor = NoCtor
    /\ rc = NoRc

\* ------------------------------------------------------------------ CRLLoss
\* forward, from its entry to the head of the loop over hard_neg_ind.
Forward ==
    /\ Quiet
    /\ \E b \in Batches :
        /\ label' = [p \in 1..Len(b) |-> b[p][1]]
        /\ cls_score' = [p \in 1..Len(b) |-> b[p][2]]
    /\ ind' = Where(MinLabelsMask(label', min_classes))
    /\ hard_samples' = [s \in 1..2 |-> [c \in 1..len_ind |-> <<>>]]
    /\ max_pred' = MaxPred(cls_score', ind')
    /\ max_pred_lab' = MaxPredLab(cls_score', ind')
    /\ hard_neg_ind' = HardNegInd(MaxThrsMask(max_pred_lab', label', ind'))
    /\ i' = 0
    /\ pc' = "mine"
    /\ error' = "none"
    /\ loss_cls' = NoLoss
    /\ UNCHANGED <<config, head, result, others>>

\* (mutant: the capacity test is left out)
UpdateAlwaysPush(heap, cap, conf, idx) == HeapPush(heap, <<conf, idx>>)

\* The collection one pass of the loop leaves, given the one it found (of
\* capacity cap): evict and insert, insert, or leave alone.
Update(heap, cap, conf, idx) ==
    IF Len(heap) >= cap /\ conf > heap[1][1]
    THEN HeapPush(HeapPop(heap), <<conf, idx>>)
    ELSE IF Len(heap) < cap
         THEN HeapPush(heap, <<conf, idx>>)
         ELSE heap

\* One pass of the loop body for idx: the stores it leaves, or the
\* IndexError of hard_samples[0][max_pred_lab[idx]].
Step(hs, cap, mp, mpl, idx) ==
    LET c == mpl[idx + 1]
    IN IF c >= Len(hs[1])
       THEN [err |-> "IndexError", hs |-> hs]
       ELSE [err |-> "none",
             hs |-> [hs EXCEPT ![1][c + 1] = Update(hs[1][c + 1], cap, mp[idx + 1], idx)]]

\* One pass of the loop, for idx = hard_neg_ind[i].
MineStep ==
    /\ pc = "mine"
    /\ i < Len(hard_neg_ind)
    /\ LET r == Step(hard_samples, k, max_pred, max_pred_lab, hard_neg_ind[i + 1])
       IN IF r.err # "none"
          THEN /\ pc' = "raised"
               /\ error' = r.err
               /\ UNCHANGED <<i, hard_samples>>
          ELSE /\ hard_samples' = r.hs
               /\ i' = i + 1
               /\ UNCHANGED <<pc, error>>
    /\ UNCHANGED <<config, label, cls_score, ind, max_pred, max_pred_lab,
                   hard_neg_ind, loss_cls, head, result, others>>

\* forward is called with weight, avg_factor and reduction_override left at
\* None, on a loss built with the defaults of __init__: reduction 'mean',
\* loss_weight 1.0, class_weight None, cls_criterion cross_entropy.
loss_weight == 1
SelfReduction == "mean"
ReductionOverride == "None"
Weight == "None"
AvgFactor == "None"
ClassWeight == "None"

\* reduction_override if reduction_override else self.reduction
Reduction(override, own) == IF override # "None" THEN override ELSE own

\* self.cls_criterion(cls_score, label, weight, class_weight=...,
\* reduction=..., avg_factor=...), as a term.
ClsCriterionValue(scores, lab, weight, class_weight, reduction, avg_factor) ==
    <<"cross_entropy", scores, lab, weight, class_weight, reduction, avg_factor>>

\* loss_cls = self.loss_weight * self.cls_criterion(...), as a term.
LossCls(scores, lab) ==
    [kind |-> "return",
     value |-> <<"times", loss_weight,
                 ClsCriterionValue(scores, lab, Weight, ClassWeight,
                                   Reduction(ReductionOverride, SelfReduction),
                                   AvgFactor)>>]

\* The loop is exhausted: forward prints hard_samples and computes the
\* loss_cls it is about to return.
MineDone ==
    /\ pc = "mine"
    /\ i = Len(hard_neg_ind)
    /\ pc' = "done"
    /\ loss_cls' = LossCls(cls_score, label)
    /\ UNCHANGED <<config, locals, error, head, result, others>>

\* forward returns or its exception propagates: its locals are gone.
Return ==
    /\ pc \in {"done", "raised"}
    /\ pc' = "idle"
    /\ label' = <<>>
    /\ cls_score' = <<>>
    /\ ind' = <<>>
    /\ max_pred' = <<>>
    /\ max_pred_lab' = <<>>
    /\ hard_neg_ind' = <<>>
    /\ i' = 0
    /\ hard_samples' = <<>>
    /\ error' = "none"
    /\ loss_cls' = NoLoss
    /\ UNCHANGED <<config, head, result, others>>

\* ------------------------------------------------------- CoSenLinearClsHead
\* The classes a head's loss module is built from.
LossTypes == {"CoSenCrossEntropyLoss", "CrossEntropyLoss", "CRLLoss", "DOSLoss"}

\* (mutant: the test is inverted)
IsCoSenLossNot(t) == t # "CoSenCrossEntropyLoss"

\* isinstance(self.loss_module, CoSenCrossEntropyLoss)
IsCoSenLoss(t) == t = "CoSenCrossEntropyLoss"

\* CoSenLinearClsHead.__init__ with a loss of class t and cal_acc = ca.
HeadInit ==
    /\ Quiet
    /\ \E t \in LossTypes, ca \in BOOLEAN :
        head' = [status |-> IF ~IsCoSenLoss(t) THEN "TypeError" ELSE "built",
                 loss_module |-> t, cal_acc |-> ca]
    /\ result' = NoResult
    /\ UNCHANGED <<crl, others>>

\* The value of a one-hot score for label c.
OneHot(c) == [d \in 1..3 |-> IF d = c + 1 THEN 1 ELSE 0]

\* data_samples of one kind: each holds gt_label, and gt_score too when
\* batch augmentation made the labels scores.
DataSamples(n) ==
    {[j \in 1..n |-> [gt_label |-> ls[j]]] : ls \in [1..n -> Classes]}
    \cup {[j \in 1..n |-> [gt_label |-> ls[j], gt_score |-> OneHot(ls[j])]] :
            ls \in [1..n -> Classes]}

\* torch.stack of the gt_score, or torch.cat of the gt_label.
Target(data_samples) ==
    IF "gt_score" \in DOMAIN data_samples[1]
    THEN [ndim |-> 2, data |-> [j \in 1..Len(data_samples) |-> data_samples[j].gt_score]]
    ELSE [ndim |-> 1, data |-> [j \in 1..Len(data_samples) |-> data_samples[j].gt_label]]

\* self.loss_module(cls_score, target): the loss module applied, as a term.
LossModule(t, scores, target) == <<t, scores, target>>

\* CoSenLinearClsHead._get_loss(cls_score, data_samples) of head h.
GetLoss(h, scores, data_samples) ==
    LET target == Target(data_samples)
        losses == [loss |-> LossModule(h.loss_module, scores, target)]
    IN IF h.cal_acc
       THEN IF target.ndim # 1
            THEN [kind |-> "raise", error |-> "AssertionError"]
            ELSE \* Accuracy is not a name of the module
                 [kind |-> "raise", error |-> "NameError"]
       ELSE [kind |-> "return", value |-> <<losses, scores>>]

\* A call of _get_loss on a built head; its arguments are kept beside what
\* it did.
HeadGetLoss ==
    /\ head.status = "built"
    /\ result = NoResult
    /\ \E n \in 1..MaxHeadBatch :
        \E scores \in [1..n -> ScoreRows], ds \in DataSamples(n) :
            result' = [call |-> [cls_score |-> scores, data_samples |-> ds]]
                      @@ GetLoss(head, scores, ds)
    /\ UNCHANGED <<crl, head, others>>

\* The head (or the failed construction) and the last call are dropped.
HeadDrop ==
    /\ head # NoHead
    /\ head' = NoHead
    /\ result' = NoResult
    /\ UNCHANGED <<crl, others>>

\* ------------------------------------------------------------------ DOSHead
\* DOSHead.__init__ with a loss module of class t.  The base constructor
\* reached by super(LinearClsHead, self).__init__ is taken to return with
\* loss_module set.  The test after it names DOSLoss, which dos_head.py
\* neither imports nor defines: evaluating it raises NameError whatever the
\* loss module is, so neither the raise of line 23 nor the end of __init__
\* is reached.
DosConstruct(t) ==
    [status |-> "raised", error |-> "NameError",
     msg |-> "name 'DOSLoss' is not defined", loss_module |-> t]

DosInit ==
    /\ Quiet
    /\ \E t \in LossTypes : dos' = DosConstruct(t)
    /\ UNCHANGED <<crl, head, result, ctor, rc>>

\* The failed construction is dropped.
DosDrop ==
    /\ dos # NoDos
    /\ dos' = NoDos
    /\ UNCHANGED <<crl, head, result, ctor, rc>>

\* --------------------------------------------------------- CRLLoss.__init__
\* The flags part of CRLLoss.__init__: the assertion, then the choice of
\* self.cls_criterion.  crl_loss.py defines cross_entropy alone:
\* binary_cross_entropy and soft_cross_entropy are names it neither defines
\* nor imports, and naming one raises NameError.
ClsCriterion(use_sigmoid, use_soft) ==
    IF use_soft /\ use_sigmoid
    THEN [status |-> "raised", error |-> "AssertionError"]
    ELSE IF use_sigmoid
         THEN [status |-> "raised", error |-> "NameError"]
         ELSE IF use_soft
              THEN [status |-> "raised", error |-> "NameError"]
              ELSE [status |-> "built", cls_criterion |-> "cross_entropy"]

\* A CRLLoss is constructed with the flags given.
CrlInit ==
    /\ Quiet
    /\ \E us \in BOOLEAN, uf \in BOOLEAN :
        ctor' = [use_sigmoid |-> us, use_soft |-> uf] @@ ClsCriterion(us, uf)
    /\ UNCHANGED <<crl, head, result, dos, rc>>

\* That loss (or its failed construction) is dropped.
CrlDrop ==
    /\ ctor # NoCtor
    /\ ctor' = NoCtor
    /\ UNCHANGED <<crl, head, result, dos, rc>>

\* --------------------------------------------------------------- RandomCrop
\* The crop_size arguments: an int <<c>> or a sequence <<h, w>>, positive.
CropSizeArgs == {<<c>> : c \in 1..MaxDim} \cup ((1..MaxDim) \X (1..MaxDim))

\* The padding arguments: None (the empty sequence) or an int <<p>>.
PaddingArgs == {<<>>} \cup {<<p>> : p \in 1..MaxPad}

\* RandomCrop.__init__: an int crop_size makes a square crop.
CropSize(arg) == IF Len(arg) = 1 THEN <<arg[1], arg[1]>> ELSE arg

Min(a, b) == IF a < b THEN a ELSE b
Max(a, b) == IF a > b THEN a ELSE b

\* (mutant: the half is rounded down)
FloorHalf(n) == n \div 2

\* math.ceil(n / 2) for n >= 0
CeilHalf(n) == (n + 1) \div 2

\* The shape <<h, w>> mmcv.impad leaves with the four borders padded.
ImPad(shape, left, top, right, bottom) ==
    <<shape[1] + top + bottom, shape[2] + left + right>>

\* The shape of img when transform hands it to rand_crop_params: padded on
\* every border when padding is given, then by h_pad and w_pad when
\* pad_if_needed.
Padded(shape, crop_size, padding, pad_if_needed) ==
    LET s1 == IF padding # <<>>
              THEN ImPad(shape, padding[1], padding[1], padding[1], padding[1])
              ELSE shape
        h_pad == CeilHalf(Max(0, crop_size[1] - s1[1]))
        w_pad == CeilHalf(Max(0, crop_size[2] - s1[2]))
    IN IF pad_if_needed THEN ImPad(s1, w_pad, h_pad, w_pad, h_pad) ELSE s1

\* np.random.randint(0, high): the values it may draw; none when high <= 0,
\* where it raises ValueError.
RandInt(high) == 0..(high - 1)

\* rand_crop_params for an image of shape <<h, w>>: every outcome it may
\* have, a returned tuple for each draw or the ValueError of an empty draw.
RandCropParams(shape, crop_size) ==
    LET h == shape[1]
        w == shape[2]
        shrink == w < crop_size[2] \/ h < crop_size[1]
        target_w == IF shrink THEN Min(w, crop_size[2]) ELSE crop_size[2]
        target_h == IF shrink THEN Min(w, crop_size[1]) ELSE crop_size[1]
    IN IF w = crop_size[2] /\ h = crop_size[1]
       THEN {[kind |-> "return", value |-> <<0, 0, h, w>>]}
       ELSE IF RandInt(h - target_h + 1) = {} \/ RandInt(w - target_w + 1) = {}
            THEN {[kind |-> "raise", error |-> "ValueError"]}
            ELSE {[kind |-> "return", value |-> <<offset_h, offset_w, target_h, target_w>>] :
                    offset_h \in RandInt(h - target_h + 1),
                    offset_w \in RandInt(w - target_w + 1)}

\* The shape mmcv.imcrop leaves for the box [x1, y1, x2, y2] (both ends
\* included), clipped to the image.
ImCrop(shape, x1, y1, x2, y2) ==
    <<Min(y2, shape[1] - 1) - Max(y1, 0) + 1, Min(x2, shape[2] - 1) - Max(x1, 0) + 1>>

\* RandomCrop.__init__
RcInit ==
    /\ Quiet
    /\ \E cs \in CropSizeArgs, pd \in PaddingArgs, pin \in BOOLEAN :
        rc' = [status |-> "built", crop_size |-> CropSize(cs), padding |-> pd,
               pad_if_needed |-> pin]
    /\ UNCHANGED <<crl, head, result, dos, ctor>>

\* RandomCrop.transform on an image of shape <<h, w>>: the shape handed to
\* rand_crop_params, what that returned, and img_shape of the result.
RcTransform ==
    /\ rc.status = "built"
    /\ \E h \in 1..MaxDim, w \in 1..MaxDim :
        LET img == Padded(<<h, w>>, rc.crop_size, rc.padding, rc.pad_if_needed)
        IN \E r \in RandCropParams(img, rc.crop_size) :
            rc' = [status |-> "called", crop_size |-> rc.crop_size,
                   padding |-> rc.padding, pad_if_needed |-> rc.pad_if_needed,
                   img_in |-> <<h, w>>, img |-> img, params |-> r,
                   img_shape |-> IF r.kind = "return"
                                 THEN ImCrop(img, r.value[2], r.value[1],
                                             r.value[2] + r.value[4] - 1,
                                             r.value[1] + r.value[3] - 1)
                                 ELSE <<>>]
    /\ UNCHANGED <<crl, head, result, dos, ctor>>

\* The transform object is dropped.
RcDrop ==
    /\ rc # NoRc
    /\ rc' = NoRc
    /\ UNCHANGED <<crl, head, result, dos, ctor>>

Next ==
    \/ Forward
    \/ MineStep
    \/ MineDone
    \/ Return
    \/ HeadInit
    \/ HeadGetLoss
    \/ HeadDrop
    \/ DosInit
    \/ DosDrop
    \/ CrlInit
    \/ CrlDrop
    \/ RcInit
    \/ RcTransform
    \/ RcDrop

Spec == Init /\ [][Next]_vars

\* ------------------------------------------------------------------ claims
Range(f) == {f[x] : x \in DOMAIN f}
Min2(a, b) == IF a < b THEN a ELSE b

\* The stores, by the index the source gives them.
Neg == hard_samples[1]
Pos == hard_samples[2]
InCall == pc \in {"mine", "done", "raised"}

\* The batch position, label and scores of the example a heap entry
\* [conf, idx] was made from: idx counts within the minority examples.
EntryPos(e) == ind[e[2] + 1]
EntryLabel(e) == label[EntryPos(e) + 1]
EntryRow(e) == cls_score[EntryPos(e) + 1]

\* Batch positions of the examples of class c that are wrongly predicted,
\* and of those that are rightly predicted.
Wrong(c) == {p \in 0..(Len(label) - 1) :
                label[p + 1] = c /\ RowArgMax(cls_score[p + 1]) # c}
Right(c) == {p \in 0..(Len(label) - 1) :
                label[p + 1] = c /\ RowArgMax(cls_score[p + 1]) = c}
Conf(p) == RowMax(cls_score[p + 1])

\* Batch positions held in the collection of class c of a store (none when
\* the store has no collection at index c).
Held(store, c) ==
    IF c + 1 \in DOMAIN store THEN {EntryPos(e) : e \in Range(store[c + 1])} ELSE {}

\* C1: when forward has finished mining a batch, the hard-negative
\* collection of every minority class c holds exactly the min(k, m) most
\* confident of the m wrongly predicted examples of class c.
C1_TopKPerClass ==
    pc = "done" =>
        \A c \in min_classes :
            /\ Held(Neg, c) \subseteq Wrong(c)
            /\ Cardinality(Held(Neg, c)) = Min2(k, Cardinality(Wrong(c)))
            /\ \A h \in Held(Neg, c), m \in Wrong(c) \ Held(Neg, c) : Conf(h) >= Conf(m)

\* C2: in every state of forward, every collection of every store holds at
\* most k entries.
C2_AtMostK ==
    \A s \in DOMAIN hard_samples : \A c \in DOMAIN hard_samples[s] :
        Len(hard_samples[s][c]) <= k

\* A full collection to which more records were offered than it can hold.
C2_Witness ==
    /\ pc = "mine"
    /\ i > k
    /\ \E c \in DOMAIN Neg : Len(Neg[c]) = k

\* The collection the record at hand (idx = hard_neg_ind[i]) is filed under.
CurIdx == hard_neg_ind[i + 1]
CurSlot == max_pred_lab[CurIdx + 1] + 1
CurEntry == <<max_pred[CurIdx + 1], CurIdx>>
MinConf(heap) == CHOOSE v \in Scores :
    /\ \E e \in Range(heap) : e[1] = v
    /\ \A e \in Range(heap) : v <= e[1]

C4_OnlyMisclassified ==
    InCall =>
        \A c \in DOMAIN Neg : \A e \in Range(Neg[c]) :
            /\ RowArgMax(EntryRow(e)) # EntryLabel(e)
            /\ e[1] = RowMax(EntryRow(e))

\* An entry is held while the batch also has a rightly predicted minority
\* example before it.
C4_Witness ==
    /\ InCall
    /\ \E c \in DOMAIN Neg : \E e \in Range(Neg[c]) :
        \E p \in 0..(Len(label) - 1) :
            /\ p < EntryPos(e)
            /\ label[p + 1] \in min_classes
            /\ p \in Right(label[p + 1])

\* C5: every entry of every collection was made from an example whose
\* ground-truth label is one of min_classes.
C5_OnlyMinority ==
    InCall =>
        \A s \in DOMAIN hard_samples : \A c \in DOMAIN hard_samples[s] :
            \A e \in Range(hard_samples[s][c]) :
                /\ EntryLabel(e) \in min_classes
                /\ e[1] = RowMax(EntryRow(e))

\* An entry is held while the batch also has a wrongly predicted example of
\* a class outside min_classes before it in the batch, predicted as the
\* same class with no less confidence.
C5_Witness ==
    /\ pc = "done"
    /\ \E c \in DOMAIN Neg : \E e \in Range(Neg[c]) :
        \E p \in 0..(Len(label) - 1) :
            /\ p < EntryPos(e)
            /\ label[p + 1] \notin min_classes
            /\ p \in Wrong(label[p + 1])
            /\ RowArgMax(cls_score[p + 1]) = c - 1
            /\ Conf(p) >= e[1]

\* C6: during forward the hard-negative store has a collection for every
\* minority class, and every entry is held in the collection of its
\* example's ground-truth class.
C6_OneCollectionPerClass ==
    InCall =>
        /\ \A c \in min_classes : c + 1 \in DOMAIN Neg
        /\ \A c \in DOMAIN Neg : \A e \in Range(Neg[c]) : EntryLabel(e) = c - 1

\* The whole loop over hni from its position j on, from stores hs.
RECURSIVE Mine(_, _, _, _, _, _)
Mine(hs, cap, mp, mpl, hni, j) ==
    IF j > Len(hni) THEN [err |-> "none", hs |-> hs]
    ELSE LET r == Step(hs, cap, mp, mpl, hni[j])
         IN IF r.err # "none" THEN r ELSE Mine(r.hs, cap, mp, mpl, hni, j + 1)

\* The examples <<label, scores>> each hard-negative collection holds when
\* forward has mined the batch (lab, sc).
KeptOf(lab, sc) ==
    LET ind0 == Where(MinLabelsMask(lab, min_classes))
        mp == MaxPred(sc, ind0)
        mpl == MaxPredLab(sc, ind0)
        hni == HardNegInd(MaxThrsMask(mpl, lab, ind0))
        r == Mine([s \in 1..2 |-> [c \in 1..len_ind |-> <<>>]], k, mp, mpl, hni, 1)
    IN [c \in DOMAIN r.hs[1] |->
          {<<lab[ind0[e[2] + 1] + 1], sc[ind0[e[2] + 1] + 1]>> : e \in Range(r.hs[1][c])}]

Swap(f, p, q) == [f EXCEPT ![p] = f[q], ![q] = f[p]]

\* C7: when forward has mined a batch, the examples each collection holds
\* are those it would hold had two wrongly predicted examples of the same
\* minority class and equal confidence arrived in the other order.
C7_OrderIndependent ==
    pc = "done" =>
        \A p, q \in 1..Len(label) :
            (/\ p < q
             /\ label[p] = label[q]
             /\ label[p] \in min_classes
             /\ (p - 1) \in Wrong(label[p])
             /\ (q - 1) \in Wrong(label[q])
             /\ Conf(p - 1) = Conf(q - 1))
            => KeptOf(Swap(label, p, q), Swap(cls_score, p, q))
                 = [c \in DOMAIN Neg |-> {<<EntryLabel(e), EntryRow(e)>> : e \in Range(Neg[c])}]

\* C8: when forward has mined a batch, the hard-negative store holds an
\* entry if some minority example is wrongly predicted, and the
\* hard-positive store holds an entry if some minority example is rightly
\* predicted; neither holds more than k per collection.
C8_MinesBothStores ==
    pc = "done" =>
        /\ (\E c \in min_classes : Wrong(c) # {}) => (\E c \in DOMAIN Neg : Neg[c] # <<>>)
        /\ (\E c \in min_classes : Right(c) # {}) => (\E c \in DOMAIN Pos : Pos[c] # <<>>)
        /\ \A c \in DOMAIN Neg : Len(Neg[c]) <= k
        /\ \A c \in DOMAIN Pos : Len(Pos[c]) <= k

\* C9: the construction of a CoSenLinearClsHead ends in TypeError exactly
\* when its loss module is not a CoSenCrossEntropyLoss, and builds the head
\* otherwise.
C9_TypeErrorIffNotCoSen ==
    head # NoHead =>
        /\ head.status \in {"TypeError", "built"}
        /\ head.status = "TypeError" <=> head.loss_module # "CoSenCrossEntropyLoss"

\* A construction refused for its loss module.
C9_Witness == head # NoHead /\ head.status = "TypeError" /\ head.loss_module = "CRLLoss"

\* C10: every call of _get_loss returns the pair (losses, cls_score), where
\* losses['loss'] is the loss module's value for (cls_score, target) and
\* cls_score is the argument itself.
C10_ReturnsLossAndScore ==
    result # NoResult =>
        /\ result.kind = "return"
        /\ Len(result.value) = 2
        /\ result.value[1].loss
             = LossModule(head.loss_module, result.call.cls_score,
                          Target(result.call.data_samples))
        /\ result.value[2] = result.call.cls_score

\* C11: the construction of a DOSHead ends in TypeError('Loss of the model
\* should be of type DOSLoss') when its loss module is not a DOSLoss, and
\* builds the head when it is one.
C11_DosTypeErrorIffNotDosLoss ==
    dos # NoDos =>
        IF dos.loss_module = "DOSLoss"
        THEN dos.status = "built"
        ELSE /\ dos.status = "raised"
             /\ dos.error = "TypeError"
             /\ dos.msg = "Loss of the model should be of type DOSLoss"

\* C12: a CRLLoss construction with use_sigmoid and use_soft both set ends
\* in AssertionError; any other is built, with binary_cross_entropy as its
\* criterion when use_sigmoid, soft_cross_entropy when use_soft, and
\* cross_entropy otherwise.
C12_CriterionByFlags ==
    ctor # NoCtor =>
        IF ctor.use_sigmoid /\ ctor.use_soft
        THEN ctor.status = "raised" /\ ctor.error = "AssertionError"
        ELSE /\ ctor.status = "built"
             /\ ctor.cls_criterion =
                  (IF ctor.use_sigmoid THEN "binary_cross_entropy"
                   ELSE IF ctor.use_soft THEN "soft_cross_entropy"
                   ELSE "cross_entropy")

\* C13: whatever the image and the crop size, rand_crop_params returns
\* (offset_h, offset_w, target_h, target_w) with 0 <= offset_h, offset_h +
\* target_h <= h, 0 <= offset_w and offset_w + target_w <= w for the image
\* of shape (h, w) it was handed; no draw has an empty range.
C13_CropInsideImage ==
    rc.status = "called" =>
        /\ rc.params.kind = "return"
        /\ 0 <= rc.params.value[1]
        /\ rc.params.value[1] + rc.params.value[3] <= rc.img[1]
        /\ 0 <= rc.params.value[2]
        /\ rc.params.value[2] + rc.params.value[4] <= rc.img[2]

\* C14: with pad_if_needed the image handed to rand_crop_params is at least
\* crop_size in height and in width, rand_crop_params returns, and the
\* cropped image has exactly crop_size.
C14_PadThenExactCrop ==
    (rc.status = "called" /\ rc.pad_if_needed) =>
        /\ rc.img[1] >= rc.crop_size[1]
        /\ rc.img[2] >= rc.crop_size[2]
        /\ rc.params.kind = "return"
        /\ rc.img_shape = rc.crop_size

\* An image one row short of the crop (an odd deficit) and narrower than it
\* was padded and cropped at a nonzero offset.
C14_Witness ==
    /\ rc.status = "called"
    /\ rc.pad_if_needed
    /\ rc.padding = <<>>
    /\ rc.img_in[1] + 1 = rc.crop_size[1]
    /\ rc.img_in[2] < rc.crop_size[2]
    /\ rc.params.kind = "return"
    /\ rc.params.value[1] > 0

\* What forward does on the batch (lab, sc) for a loss built with k = cap
\* and min_classes = mc: the loss it returns or the exception it raises.
OutcomeOf(cap, mc, lab, sc) ==
    LET ind0 == Where(MinLabelsMask(lab, mc))
        mp == MaxPred(sc, ind0)
        mpl == MaxPredLab(sc, ind0)
        hni == HardNegInd(MaxThrsMask(mpl, lab, ind0))
        r == Mine([s \in 1..2 |-> [c \in 1..len_ind |-> <<>>]], cap, mp, mpl, hni, 1)
    IN IF r.err # "none" THEN [kind |-> "raise", error |-> r.err]
       ELSE LossCls(sc, lab)

\* C16: when forward ends, what it returns is loss_weight times the
\* criterion applied to (cls_score, label, weight, class_weight, reduction,
\* avg_factor), and a call on the same batch of a loss built with any other
\* k or min_classes returns the same.
C16_LossIndependentOfMining ==
    pc \in {"done", "raised"} =>
        /\ pc = "done" =>
             loss_cls.value = <<"times", loss_weight,
                                <<"cross_entropy", cls_score, label, Weight, ClassWeight,
                                  "mean", AvgFactor>>>>
        /\ \A cap \in 1..MaxK, mc \in MinClassesArgs :
             /\ OutcomeOf(cap, mc, label, cls_score).kind = "return"
             /\ pc = "done" => OutcomeOf(cap, mc, label, cls_score) = loss_cls

====
